---- MODULE Spec2Model ----
(***************************************************************************)
(* A model of the session-dispatch gateway's construction and lifecycle    *)
(* code: the outbound handler catalog (app/outbound/manager.rs), the       *)
(* inbound composite build (app/inbound/manager.rs) and the instance       *)
(* registry with start / shutdown (lib.rs).                                *)
(***************************************************************************)
EXTENDS Integers, Sequences, FiniteSets, TLC

VARIABLES
    \* ---- OutboundManager (app/outbound/manager.rs) ----
    outbounds,        \* the config's outbound list: Seq of [tag, protocol, settings]
    handlers,         \* IndexMap<String, AnyOutboundHandler>: Seq of [tag, h]
    default_handler,  \* Option<String>: <<>> is None, <<t>> is Some(t)
    nextId,           \* next handler allocation (identity of a built instance)
    obPass,           \* number of load_handlers calls that OutboundManager::new has made
    obPc,             \* "loading" | "built" | "error"
    nAdds,            \* number of OutboundManager::add calls made so far
    tls_configs,      \* one entry per make_config call: the ClientConfig it made, by who holds it
    \* ---- instance registry, start and shutdown (lib.rs) ----
    registry,         \* RUNTIME_MANAGER: RuntimeId -> the start call whose RuntimeManager it holds
    lockHeld,         \* the RUNTIME_MANAGER mutex is held by a shutdown() call in progress
    pc,               \* position of each start call
    cfg,              \* each start call's `config` after lib.rs:190-194: [rules]
    chan,             \* each start call's shutdown channel: [msgs, rxOpen]
    sigState,         \* each start call's signal task: "none" | "armed" | "sending"
    accepted,         \* a shutdown() call has returned true for this start call
    nStarts,          \* number of start calls made
    sdPc,             \* the shutdown() caller: "idle" | "locked" (inside shutdown())
    sdResult,         \* what the last shutdown() returned: "none" | "true" | "false"
    nCycles,          \* number of start calls that returned Ok after shutdown() returned true for them
    hasSignalTask,    \* the build spawns the signal task (inbound-tun on macos / linux)
    \* ---- InboundManager::new (app/inbound/manager.rs) ----
    inbounds,         \* the config's inbound list: Seq of [tag, protocol, settings, port]
    arcs,             \* every Arc<Handler> allocated so far; an Arc's identity is its index
    inHandlers,       \* HashMap<String, AnyInboundHandler>: tag -> index into arcs
    network_listeners,\* HashMap<String, NetworkInboundListener>: tag -> [port, handler]
    tun_listener,     \* Option<TunInboundListener>: the tag of the tun inbound it holds
    cat_listener,     \* Option<CatInboundListener>: the tag of the cat inbound it holds
    tun_auto,         \* bool
    ibPass,           \* number of composite passes made
    ibPc,             \* "idle" | "start" | "base" | "passed" | "built" | "error"
    \* ---- the binary's main (ostrich-bin/src/main.rs) ----
    args,             \* the parsed command line and what the process finds around it
    mainPc,           \* "idle" | "version" | "test" | "env" | "probe" | "run" | "running" | "exited"
    exitCode,         \* Option<i32>: the process exit status
    stdout,           \* the lines printed so far, by kind
    mainRt,           \* the tokio runtime the process built: [flavor, workers]
    probed,           \* util::test_outbound has been called
    \* ---- one start call's initialisation, statement by statement (lib.rs:183-698) ----
    siIn,             \* the call's input: [config, fail, sig]
    siPc,             \* the next statement of StartSteps, or "idle" | "running" | "err" | "panic"
    components,       \* the objects the call has constructed so far
    dns_dispatcher,   \* DnsClient's reference to the dispatcher: "none" | "weak" | "strong"
    \* ---- NatManager (spec 4.5; its code is not part of the sources) ----
    nat_entries,      \* the NAT map's live entries: a set of [key, endpoint]
    natCall,          \* each send_packet caller: [pc, key, endpoint]
    nextEndpoint,     \* next outbound datagram endpoint the dispatcher hands out
    nPackets,         \* number of send_packet calls made
    nReaps,           \* number of entries the idle sweep has reaped
    \* ---- Router and the dispatcher's route lookup (spec 4.3) ----
    rules,            \* the router's rules, in configuration order
    session,          \* the session the queries are made for
    routed            \* the tags the successive queries returned

outVars == <<outbounds, handlers, default_handler, nextId, obPass, obPc, nAdds,
             tls_configs>>

rtVars == <<registry, lockHeld, pc, cfg, chan, sigState, accepted, nStarts,
            sdPc, sdResult, nCycles, hasSignalTask>>

inVars == <<inbounds, arcs, inHandlers, network_listeners, tun_listener, cat_listener, tun_auto,
            ibPass, ibPc>>

mnVars == <<args, mainPc, exitCode, stdout, mainRt, probed>>

siVars == <<siIn, siPc, components, dns_dispatcher>>

natVars == <<nat_entries, natCall, nextEndpoint, nPackets, nReaps>>

rtrVars == <<rules, session, routed>>

vars == <<outVars, rtVars, inVars, mnVars, siVars, natVars, rtrVars>>

-----------------------------------------------------------------------------
(* Bounds of the model *)

MaxOutbounds == 3
MaxAdds == 1
MaxStarts == 2
MaxInbounds == 2
MaxPackets == 3
MaxReaps == 1
MaxQueries == 2
MaxRules == 2

-----------------------------------------------------------------------------
(* Option<T> *)

None == <<>>
Some(x) == <<x>>
IsSome(o) == o # <<>>
Unwrap(o) == o[1]

RangeOf(s) == {s[i] : i \in 1..Len(s)}

-----------------------------------------------------------------------------
(* Outbound configuration values *)

Tags == {"a", "b"}
Protocols == {"direct", "trojan", "other"}
\* Settings blobs; "bad" is a blob that TrojanOutboundSettings::parse_from_bytes rejects.
Blobs == {"s1", "s2"}
BadBlob == "bad"

\* An outbound entry of the config.  The blob of a non-trojan outbound is never
\* parsed, so the unparsable blob is only enumerated for trojan outbounds.
OutboundEntries ==
    {[tag |-> t, protocol |-> p, settings |-> s] :
        t \in Tags, p \in Protocols, s \in Blobs}
    \cup {[tag |-> t, protocol |-> "trojan", settings |-> BadBlob] : t \in Tags}

RECURSIVE SeqsUpTo(_, _)
SeqsUpTo(S, n) ==
    IF n = 0 THEN {<<>>}
    ELSE LET shorter == SeqsUpTo(S, n - 1)
         IN  shorter \cup {Append(q, x) : q \in {r \in shorter : Len(r) = n - 1}, x \in S}

-----------------------------------------------------------------------------
(* IndexMap<String, AnyOutboundHandler> *)

ContainsKey(hs, tag) == \E i \in 1..Len(hs) : hs[i].tag = tag

IndexOfKey(hs, tag) == CHOOSE i \in 1..Len(hs) : hs[i].tag = tag

\* IndexMap::get
Get(hs, tag) == IF ContainsKey(hs, tag) THEN Some(hs[IndexOfKey(hs, tag)].h) ELSE None

\* IndexMap::insert: a present key keeps its position and gets the new value,
\* an absent key is appended.
InsertAtFront(hs, tag, h) ==
    IF ContainsKey(hs, tag)
    THEN [hs EXCEPT ![IndexOfKey(hs, tag)] = [tag |-> tag, h |-> h]]
    ELSE <<[tag |-> tag, h |-> h]>> \o hs
Insert(hs, tag, h) ==
    IF ContainsKey(hs, tag)
    THEN [hs EXCEPT ![IndexOfKey(hs, tag)] = [tag |-> tag, h |-> h]]
    ELSE Append(hs, [tag |-> tag, h |-> h])

-----------------------------------------------------------------------------
(* OutboundManager::load_handlers *)

\* The protocols the match at manager.rs:74 builds a handler for.
Supported(protocol) == protocol \in {"direct", "trojan"}

\* TrojanOutboundSettings::parse_from_bytes(&outbound.settings)
ParseOk(settings) == settings # BadBlob

\* HandlerBuilder ... .build(): a fresh handler instance with both capabilities.
BuildHandlerStreamOnly(id, tag) ==
    [id |-> id, tag |-> tag, stream |-> TRUE, datagram |-> FALSE]
BuildHandler(id, tag) == [id |-> id, tag |-> tag, stream |-> TRUE, datagram |-> TRUE]

\* make_config(&settings), tls.rs:6-22: a new Arc<ClientConfig>; its identity
\* is the number of the call that made it.
MakeConfig(made) == Len(made) + 1

\* tls_config.clone() for the datagram dialer, manager.rs:105: the same Arc.
DatagramTlsConfigRebuilt(tls_config) == tls_config + 1
DatagramTlsConfig(tls_config) == tls_config

\* The trojan dialers of handler id, manager.rs:89-106, by the config each holds.
TrojanDialers(made, id) ==
    LET tls_config == MakeConfig(made)
    IN  [handler |-> id, stream |-> tls_config, datagram |-> DatagramTlsConfig(tls_config)]

\* The make_config calls after building a handler for ob.
MadeAfterBuild(made, ob, id) ==
    IF ob.protocol = "trojan" THEN Append(made, TrojanDialers(made, id)) ELSE made

\* The cache scan's comparison, manager.rs:67.
CacheMatchProtocolOnly(e, ob) == e.protocol = ob.protocol
CacheMatchWithTag(e, ob) ==
    e.tag = ob.tag /\ e.protocol = ob.protocol /\ e.settings = ob.settings
CacheMatch(e, ob) == e.protocol = ob.protocol /\ e.settings = ob.settings

\* The first cache entry that matches, as the scan at manager.rs:66 finds it.
FirstMatch(cached, ob) ==
    LET hits == {i \in 1..Len(cached) : CacheMatch(cached[i], ob)}
    IN  IF hits = {} THEN 0 ELSE CHOOSE i \in hits : \A j \in hits : i <= j

\* The skip of a tag the catalog already holds, manager.rs:57-59.
AlreadyLoadedNever(hs, tag) == FALSE
AlreadyLoaded(hs, tag) == ContainsKey(hs, tag)

\* Where the default handler is recorded, manager.rs:60-63.
SetDefault(dh, ob) == IF dh = None THEN Some(ob.tag) ELSE dh

\* One iteration of 'loop1 on the loop state st.
LoadStep(st, ob) ==
    IF st.err THEN st
    ELSE IF AlreadyLoaded(st.handlers, ob.tag) THEN st
    ELSE
      LET dh == SetDefault(st.default_handler, ob)
          m  == FirstMatch(st.cached, ob)
      IN  IF m # 0
          THEN [st EXCEPT !.default_handler = dh,
                          !.handlers = Insert(st.handlers, ob.tag, st.cached[m].handler)]
          ELSE IF ~Supported(ob.protocol)
          THEN [st EXCEPT !.default_handler = dh]
          ELSE IF ob.protocol = "trojan" /\ ~ParseOk(ob.settings)
          THEN [st EXCEPT !.default_handler = dh, !.err = TRUE]
          ELSE LET h == BuildHandler(st.nextId, ob.tag)
               IN  [st EXCEPT !.default_handler = dh,
                              !.nextId = st.nextId + 1,
                              !.made = MadeAfterBuild(st.made, ob, st.nextId),
                              !.cached = Append(st.cached,
                                            [tag |-> ob.tag, handler |-> h,
                                             protocol |-> ob.protocol,
                                             settings |-> ob.settings]),
                              !.handlers = Insert(st.handlers, ob.tag, h)]

RECURSIVE LoadLoop(_, _, _)
LoadLoop(obs, i, st) ==
    IF i > Len(obs) THEN st ELSE LoadLoop(obs, i + 1, LoadStep(st, obs[i]))

\* One call of load_handlers: the cache starts empty on every call.
LoadHandlers(obs, hs, dh, nid, made) ==
    LoadLoop(obs, 1, [handlers |-> hs, default_handler |-> dh, nextId |-> nid,
                      made |-> made, cached |-> <<>>, err |-> FALSE])

\* The number of passes OutboundManager::new makes, manager.rs:136.
OutboundPasses == 4

-----------------------------------------------------------------------------
(* The instance registry and the shutdown channel (lib.rs) *)

\* const INSTANCE_ID: RuntimeId = 1
INSTANCE_ID == 1

\* mpsc::channel(1)
ChannelCapacity == 1

\* The concurrent callers of start.
Threads == {"t1", "t2"}

NoCfg == [rules |-> "absent"]

\* IndexMap::new(): the empty registry.
EmptyRegistry == <<>>

\* is_running(): RUNTIME_MANAGER.lock().unwrap().contains_key(&INSTANCE_ID)
IsRunning == INSTANCE_ID \in DOMAIN registry

\* The start call whose RuntimeManager the registry holds.
Registered(t) == IsRunning /\ registry[INSTANCE_ID] = t

\* IndexMap::insert(INSTANCE_ID, runtime_manager): the entry of the key is
\* replaced, every other entry is kept.
RegistryInsertNextId(reg, t) ==
    [k \in DOMAIN reg \cup {Cardinality(DOMAIN reg) + 1} |->
        IF k \in DOMAIN reg THEN reg[k] ELSE t]
RegistryInsert(reg, t) ==
    [k \in DOMAIN reg \cup {INSTANCE_ID} |-> IF k = INSTANCE_ID THEN t ELSE reg[k]]

\* IndexMap::remove(&INSTANCE_ID): the entry of the key is removed, every other
\* entry is kept.
RegistryKeep(reg) == reg
RegistryRemove(reg) == [k \in DOMAIN reg \ {INSTANCE_ID} |-> reg[k]]

NewChannel == [msgs |-> 0, rxOpen |-> TRUE]
\* The receiver is dropped: the channel is closed and its messages are dropped.
ClosedChannel == [msgs |-> 0, rxOpen |-> FALSE]

\* Sender::blocking_send / Sender::send on channel ch: "closed" (Err), "sent"
\* or "full" (the sender has to wait for capacity).
TrySendIgnoringClose(ch) ==
    IF ch.msgs < ChannelCapacity \/ ~ch.rxOpen THEN "sent" ELSE "full"
TrySend(ch) ==
    IF ~ch.rxOpen THEN "closed"
    ELSE IF ch.msgs < ChannelCapacity THEN "sent"
    ELSE "full"

\* The channel after a send that did not have to wait.
Sent(ch) == [ch EXCEPT !.msgs = IF ch.rxOpen THEN ch.msgs + 1 ELSE ch.msgs]

\* RuntimeManager::blocking_shutdown's result for a send that did not have to wait.
ShutdownResult(outcome) == IF outcome = "sent" THEN "true" ELSE "false"

-----------------------------------------------------------------------------
(* start: the configuration and the initialisation up to the registry insert *)

\* Config::File and Config::Str are both decoded by the parser ("File" stands
\* for either); Config::Internal is taken as it is.
ConfigKinds == {"File", "Internal"}
\* The router rules of the config: none, all targets defined, or a target that
\* names no outbound of the config.
RuleShapes == {"none", "resolved", "dangling"}
Configs == {[kind |-> k, rules |-> r] : k \in ConfigKinds, r \in RuleShapes}

\* The fallible steps of start before the registry insert, in code order.
FailPoints == {"none", "parse", "runtime", "dns", "outbound", "inbound", "listen", "signals"}

\* config::from_file / config::from_string: rejects a document it cannot
\* decode and a rule whose target outbound is undefined.
FromFile(c, fail) == fail # "parse" /\ c.rules # "dangling"

\* The outcome of start's initialisation, lib.rs:183-694:
\* "failed" (an Err is returned), "panicked" or "ready".
InitOutcome(c, fail, sig) ==
    IF c.kind # "Internal" /\ ~FromFile(c, fail) THEN "failed"
    ELSE IF fail \in {"runtime", "dns"} THEN "failed"
    ELSE IF c.rules = "none" THEN "panicked"       \* config.router.rules[0]
    ELSE IF fail \in {"outbound", "inbound", "listen"} THEN "failed"
    ELSE IF sig /\ fail = "signals" THEN "failed"
    ELSE "ready"

-----------------------------------------------------------------------------
(* InboundManager::new: configuration values and handler construction *)

InTags == {"a", "b", "c"}
BaseProtocols == {"socks", "http", "quic"}
CompositeProtocols == {"amux", "chain"}
\* The protocols with a listener of their own, manager.rs:470 and 482.
ListenerProtocols == {"tun", "cat"}
Ports == {0, 1080}

\* settings.actors of a parsed AMuxInboundSettings / ChainInboundSettings.
ActorLists ==
    {<<>>} \cup {<<x>> : x \in InTags}
           \cup {p \in InTags \X InTags : p[1] # p[2]}

\* inbound.settings by what parse_from_bytes makes of it: ok is FALSE for
\* bytes it rejects, actors and auto are the fields the protocols read.
InboundSettings(ok, actors, auto) == [ok |-> ok, actors |-> actors, auto |-> auto]

\* The settings an inbound of each protocol may carry.
InSettings(protocol) ==
    CASE protocol \in CompositeProtocols ->
             {InboundSettings(TRUE, l, FALSE) : l \in ActorLists}
                 \cup {InboundSettings(FALSE, <<>>, FALSE)}
      [] protocol = "quic" -> {InboundSettings(ok, <<>>, FALSE) : ok \in BOOLEAN}
      [] protocol = "tun" ->
             {InboundSettings(TRUE, <<>>, auto) : auto \in BOOLEAN}
                 \cup {InboundSettings(FALSE, <<>>, FALSE)}
      [] OTHER -> {InboundSettings(TRUE, <<>>, FALSE)}

InboundEntries ==
    UNION {[tag : InTags, protocol : {p}, settings : InSettings(p), port : Ports] :
              p \in BaseProtocols \cup CompositeProtocols \cup ListenerProtocols}

\* proxy::inbound::Handler::new(tag, stream, datagram) behind a fresh Arc; the
\* actors are the Arcs the stream / datagram handler of a composite holds.
NewHandler(tag, stream, datagram, actors) ==
    [tag |-> tag, stream |-> stream, datagram |-> datagram, actors |-> actors]

MapInsert(m, k, v) == [x \in DOMAIN m \cup {k} |-> IF x = k THEN v ELSE m[x]]

EmptyMap == [x \in {} |-> 0]

\* handlers.insert(tag, Arc::new(handler)).
InsertHandler(st, h) ==
    [st EXCEPT !.arcs = Append(st.arcs, h),
               !.map = MapInsert(st.map, h.tag, Len(st.arcs) + 1)]

\* The body of the first loop for one inbound.
BaseStep(st, ib) ==
    IF st.err THEN st
    ELSE CASE ib.protocol = "socks" ->
                 InsertHandler(st, NewHandler(ib.tag, TRUE, TRUE, <<>>))
           [] ib.protocol = "http" ->
                 InsertHandler(st, NewHandler(ib.tag, TRUE, FALSE, <<>>))
           [] ib.protocol = "quic" ->
                 IF ~ib.settings.ok THEN [st EXCEPT !.err = TRUE]
                 ELSE InsertHandler(st, NewHandler(ib.tag, FALSE, TRUE, <<>>))
           [] OTHER -> st

RECURSIVE BaseLoop(_, _, _)
BaseLoop(st, ibs, i) ==
    IF i > Len(ibs) THEN st ELSE BaseLoop(BaseStep(st, ibs[i]), ibs, i + 1)

\* `for actor in settings.actors.iter() { if let Some(a) = handlers.get(actor)
\* { actors.push(a.clone()) } }`: the actors that resolve, in order.
RECURSIVE ResolveActors(_, _)
ResolveActors(names, m) ==
    IF names = <<>> THEN <<>>
    ELSE LET rest == ResolveActors(Tail(names), m)
         IN  IF Head(names) \in DOMAIN m THEN <<m[Head(names)]>> \o rest ELSE rest

\* `actors[0].stream().is_ok()`, manager.rs:416: the chain has a stream
\* handler when its first resolved actor has one.
ChainStreamAlways(arcsNow, actors) == TRUE
ChainStream(arcsNow, actors) == arcsNow[actors[1]].stream

\* `actors[0].datagram().is_ok()`, manager.rs:424.
ChainDatagram(arcsNow, actors) == arcsNow[actors[1]].datagram

\* The body of one composite pass for one inbound.
PassStep(st, ib) ==
    IF st.err THEN st
    ELSE CASE ib.protocol = "amux" ->
                 IF ~ib.settings.ok THEN [st EXCEPT !.err = TRUE]
                 ELSE InsertHandler(st,
                          NewHandler(ib.tag, TRUE, FALSE, ResolveActors(ib.settings.actors, st.map)))
           [] ib.protocol = "chain" ->
                 IF ~ib.settings.ok THEN [st EXCEPT !.err = TRUE]
                 ELSE LET actors == ResolveActors(ib.settings.actors, st.map)
                      IN  IF actors = <<>> THEN st
                          ELSE InsertHandler(st,
                                   NewHandler(ib.tag, ChainStream(st.arcs, actors),
                                              ChainDatagram(st.arcs, actors), actors))
           [] OTHER -> st

RECURSIVE PassLoop(_, _, _)
PassLoop(st, ibs, i) ==
    IF i > Len(ibs) THEN st ELSE PassLoop(PassStep(st, ibs[i]), ibs, i + 1)

InboundPasses == 4

\* The `_` arm's conditions for a network listener, manager.rs:491-492.
ListensOnAnyPort(ib, m) == ib.tag \in DOMAIN m
ListensOn(ib, m) == ib.port # 0 /\ ib.tag \in DOMAIN m

\* The body of the listener loop for one inbound.
ListenerStep(st, ib) ==
    IF st.err THEN st
    ELSE IF ib.protocol = "tun"
    THEN IF ~ib.settings.ok THEN [st EXCEPT !.tun = Some(ib.tag), !.err = TRUE]
         ELSE [st EXCEPT !.tun = Some(ib.tag), !.auto = ib.settings.auto]
    ELSE IF ib.protocol = "cat"
    THEN [st EXCEPT !.cat = Some(ib.tag)]
    ELSE IF ListensOn(ib, st.map)
         THEN [st EXCEPT !.listeners =
                   MapInsert(st.listeners, ib.tag, [port |-> ib.port, handler |-> st.map[ib.tag]])]
         ELSE st

RECURSIVE ListenerLoop(_, _, _)
ListenerLoop(st, ibs, i) ==
    IF i > Len(ibs) THEN st ELSE ListenerLoop(ListenerStep(st, ibs[i]), ibs, i + 1)

-----------------------------------------------------------------------------
(* main: the command line, the environment and the exits *)

\* The worker threads Builder::new_multi_thread() starts by default: the
\* number of cores of the machine.
Cores == {1, 2}

\* Args as argh parses them (main.rs:29-69), with what the process finds: the
\* file -c names (its rules, and whether it can be read and decoded), the
\* working directory and the number of cores.
ArgSets ==
    [version : BOOLEAN, test : BOOLEAN, test_outbound : {None, Some("a")},
     single_thread : BOOLEAN, config : {c \in Configs : c.kind = "File"},
     unreadable : BOOLEAN, cwdOk : BOOLEAN, cores : Cores]

NoArgs ==
    [version |-> FALSE, test |-> FALSE, test_outbound |-> None, single_thread |-> FALSE,
     config |-> [kind |-> "File", rules |-> "resolved"], unreadable |-> FALSE,
     cwdOk |-> TRUE, cores |-> 1]

\* The fail point of the parser for the file of the command line.
ParseFail(a) == IF a.unreadable THEN "parse" ELSE "none"

\* test_config(config_path), lib.rs:131-135: from_file(..).map(|_| ()).
TestConfig(a) == FromFile(a.config, ParseFail(a))

\* std::process::exit(code).
Exit(code) == Some(code)

\* A panic on the main thread ends the process with status 101.
PanickedExit == Some(101)

\* The exit of the -T branch, main.rs:80-86.
TestExitAlwaysZero(ok) == [code |-> 0, line |-> IF ok THEN "ok" ELSE "error"]
TestExit(ok) == IF ok THEN [code |-> 0, line |-> "ok"] ELSE [code |-> 1, line |-> "error"]

NoRuntime == [flavor |-> "none", workers |-> 0]

\* new_runtime(), lib.rs:137-143: Builder::new_multi_thread().enable_all().build().
NewRuntime(a) == [flavor |-> "multi_thread", workers |-> a.cores]

\* Builder::new_current_thread().enable_all().build(), main.rs:112-115.
CurrentThreadRuntime == [flavor |-> "current_thread", workers |-> 1]

\* What util::test_outbound can return: Err, or Ok((tcp_res, udp_res)).
ProbeResults ==
    {[err |-> TRUE, tcp |-> FALSE, udp |-> FALSE]}
        \cup {[err |-> FALSE, tcp |-> x, udp |-> y] : x \in BOOLEAN, y \in BOOLEAN}

\* The lines the Ok arm prints, main.rs:126-133.
ProbeLines(r) ==
    <<IF r.tcp THEN "TCP ok" ELSE "TCP failed", IF r.udp THEN "UDP ok" ELSE "UDP failed">>

MainIdle ==
    /\ args = NoArgs
    /\ mainPc = "idle"
    /\ exitCode = None
    /\ stdout = <<>>
    /\ mainRt = NoRuntime
    /\ probed = FALSE

InboundIdle ==
    /\ inbounds = <<>>
    /\ arcs = <<>>
    /\ inHandlers = EmptyMap
    /\ network_listeners = EmptyMap
    /\ tun_listener = None
    /\ cat_listener = None
    /\ tun_auto = FALSE
    /\ ibPass = 0
    /\ ibPc = "idle"

-----------------------------------------------------------------------------
(* start: the initialisation statement by statement *)

\* The statements of start from the channel to the registry insert, in the
\* order of the code: lib.rs:183-194 (config), 198 (runtime), 204-206 (dns),
\* 208-214 (ipset), 216-218 (outbound), 219-222 (router), 223-233 (dispatcher),
\* 235-242 (backref), 244 (nat), 245-256 (inbound), 258-303 (runners),
\* 305-637 (signals), 642-693 (manager), 695-698 (register).
StartStepsRegisterEarly ==
    <<"config", "runtime", "register", "dns", "ipset", "outbound", "router", "dispatcher",
      "backref", "nat", "inbound", "runners", "signals", "manager">>
StartStepsBackrefLate ==
    <<"config", "runtime", "dns", "ipset", "outbound", "router", "dispatcher",
      "nat", "inbound", "runners", "backref", "signals", "manager", "register">>
StartSteps ==
    <<"config", "runtime", "dns", "ipset", "outbound", "router", "dispatcher",
      "backref", "nat", "inbound", "runners", "signals", "manager", "register">>

\* The statement after step, "running" after the last.
StepAfter(step) ==
    LET i == CHOOSE k \in 1..Len(StartSteps) : StartSteps[k] = step
    IN  IF i = Len(StartSteps) THEN "running" ELSE StartSteps[i + 1]

StartInputs == [config : Configs, fail : FailPoints, sig : BOOLEAN]

NoStartInput == [config |-> [kind |-> "Internal", rules |-> "resolved"], fail |-> "none",
                 sig |-> FALSE]

\* Whether the statement returns an Err (`?`) on this input.
StepFails(step, in) ==
    CASE step = "config"   -> in.config.kind # "Internal" /\ ~FromFile(in.config, in.fail)
      [] step = "runtime"  -> in.fail = "runtime"
      [] step = "dns"      -> in.fail = "dns"
      [] step = "outbound" -> in.fail = "outbound"
      [] step = "inbound"  -> in.fail = "inbound"
      [] step = "runners"  -> in.fail = "listen"
      [] step = "signals"  -> in.sig /\ in.fail = "signals"
      [] OTHER -> FALSE

\* What the statement constructs.
StepBuilds(step, in) ==
    CASE step = "config"     -> {"shutdown_channel", "config"}
      [] step = "runtime"    -> {"rt"}
      [] step = "dns"        -> {"dns_client"}
      [] step = "ipset"      -> {"ipset"}
      [] step = "outbound"   -> {"outbound_manager"}
      [] step = "router"     -> {"router"}
      [] step = "dispatcher" -> {"dispatcher"}
      [] step = "backref"    -> {"dispatcher_weak"}
      [] step = "nat"        -> {"nat_manager"}
      [] step = "inbound"    -> {"inbound_manager"}
      [] step = "runners"    -> {"runners"}
      [] step = "signals"    -> IF in.sig THEN {"signal_task"} ELSE {}
      [] step = "manager"    -> {"runtime_manager", "tasks"}
      [] step = "register"   -> {}

\* A statement that can only return early with `?` or go on.
Advance(step) ==
    /\ siPc = step
    /\ IF StepFails(step, siIn)
       THEN /\ siPc' = "err"
            /\ UNCHANGED components
       ELSE /\ siPc' = StepAfter(step)
            /\ components' = components \cup StepBuilds(step, siIn)

StartInitIdle ==
    /\ siIn = NoStartInput
    /\ siPc = "idle"
    /\ components = {}
    /\ dns_dispatcher = "none"

-----------------------------------------------------------------------------
(* Router: rules, sessions and the route lookup *)

Networks == {"tcp", "udp"}
SessionPorts == {53, 80}

\* A session, by the fields the modelled predicates read.
Sessions == [network : Networks, port : SessionPorts]

\* A rule: its predicates (network-kind, port-range) and its target tag.
RouterRules ==
    [networks : {{"tcp"}, {"tcp", "udp"}}, ports : {{53}, {53, 80}}, target : Tags]

\* The rule's predicate set is wholly satisfied by the session.
RuleMatches(rule, sess) == sess.network \in rule.networks /\ sess.port \in rule.ports

\* Router::pick_route: the rules are tried in configuration order.
RECURSIVE PickRouteFrom(_, _, _)
PickRouteFrom(rs, i, sess) ==
    IF i > Len(rs) THEN None
    ELSE IF RuleMatches(rs[i], sess) THEN Some(rs[i].target)
    ELSE PickRouteFrom(rs, i + 1, sess)

PickRoute(rs, sess) == PickRouteFrom(rs, 1, sess)

\* The dispatcher's lookup: the route, else OutboundManager::default_handler().
Route(rs, sess, dh) == IF IsSome(PickRoute(rs, sess)) THEN PickRoute(rs, sess) ELSE dh

\* The outbound lists of the route lookups: one settings blob, a supported
\* and an unsupported protocol.
RouterOutboundEntries ==
    {e \in OutboundEntries : e.settings = "s1" /\ e.protocol \in {"direct", "other"}}

-----------------------------------------------------------------------------
(* NatManager: the map of (source, destination) to outbound datagram endpoint *)

\* The (client source address, destination address) pairs of the sessions.
NatKeys == {"k1", "k2"}

\* The tasks that call send_packet concurrently.
NatCallers == {"p1", "p2"}

NoEndpoint == 0

HasEntry(entries, key) == \E e \in entries : e.key = key

EntryOf(entries, key) == CHOOSE e \in entries : e.key = key

\* Entry creation: a compare-and-swap on the keyed slot.  A caller that finds
\* the slot taken discards its own endpoint and the installed entry stays.
InstallEntryUnchecked(entries, key, endpoint) ==
    entries \cup {[key |-> key, endpoint |-> endpoint]}
InstallEntry(entries, key, endpoint) ==
    IF HasEntry(entries, key)
    THEN entries
    ELSE entries \cup {[key |-> key, endpoint |-> endpoint]}

\* The idle sweep's removal of a key's entry.
ReapEntry(entries, key) == {e \in entries : e.key # key}

IdleCall == [pc |-> "idle", key |-> "k1", endpoint |-> NoEndpoint, discarded |-> FALSE]

NatIdle ==
    /\ nat_entries = {}
    /\ natCall = [c \in NatCallers |-> IdleCall]
    /\ nextEndpoint = 1
    /\ nPackets = 0
    /\ nReaps = 0

\* Router and route lookup: nothing configured, nothing asked.
RouterIdle ==
    /\ rules = <<>>
    /\ session = [network |-> "tcp", port |-> 80]
    /\ routed = <<>>

-----------------------------------------------------------------------------
(* start, shutdown and the signal task: state machine *)

RuntimeIdle ==
    /\ registry = EmptyRegistry
    /\ lockHeld = FALSE
    /\ pc = [t \in Threads |-> "idle"]
    /\ cfg = [t \in Threads |-> NoCfg]
    /\ chan = [t \in Threads |-> ClosedChannel]
    /\ sigState = [t \in Threads |-> "none"]
    /\ accepted = [t \in Threads |-> FALSE]
    /\ nStarts = 0
    /\ sdPc = "idle"
    /\ sdResult = "none"
    /\ nCycles = 0
    /\ hasSignalTask = FALSE

OutboundIdle ==
    /\ outbounds = <<>>
    /\ handlers = <<>>
    /\ default_handler = None
    /\ nextId = 1
    /\ obPass = 0
    /\ obPc = "idle"
    /\ nAdds = 0
    /\ tls_configs = <<>>

InitRuntime ==
    /\ registry = EmptyRegistry
    /\ lockHeld = FALSE
    /\ pc = [t \in Threads |-> "idle"]
    /\ cfg = [t \in Threads |-> NoCfg]
    /\ chan = [t \in Threads |-> ClosedChannel]
    /\ sigState = [t \in Threads |-> "none"]
    /\ accepted = [t \in Threads |-> FALSE]
    /\ nStarts = 0
    /\ sdPc = "idle"
    /\ sdResult = "none"
    /\ nCycles = 0
    /\ hasSignalTask \in BOOLEAN
    /\ OutboundIdle
    /\ InboundIdle
    /\ MainIdle
    /\ StartInitIdle
    /\ NatIdle
    /\ RouterIdle

\* start, lib.rs:183-694: the channel, the config, the runtime, the managers,
\* the runners and the signal task; nothing shared is touched.
StartInit(t, c, fail) ==
    /\ pc[t] \in {"idle", "done", "failed", "panicked"}
    /\ nStarts < MaxStarts
    /\ nStarts' = nStarts + 1
    /\ accepted' = [accepted EXCEPT ![t] = FALSE]
    /\ LET o == InitOutcome(c, fail, hasSignalTask)
       IN  /\ pc' = [pc EXCEPT ![t] = o]
           /\ cfg' = [cfg EXCEPT ![t] = IF o = "failed" THEN NoCfg ELSE [rules |-> c.rules]]
           /\ chan' = [chan EXCEPT ![t] = IF o = "ready" THEN NewChannel ELSE ClosedChannel]
           /\ sigState' = [sigState EXCEPT ![t] =
                               IF o = "ready" /\ hasSignalTask THEN "armed" ELSE "none"]
    /\ UNCHANGED <<registry, lockHeld, sdPc, sdResult, nCycles, hasSignalTask, outVars, inVars, mnVars, siVars, natVars, rtrVars>>

\* lib.rs:695-698: RUNTIME_MANAGER.lock().unwrap().insert(INSTANCE_ID, runtime_manager)
StartRegister(t) ==
    /\ pc[t] = "ready"
    /\ ~lockHeld
    /\ registry' = RegistryInsert(registry, t)
    /\ pc' = [pc EXCEPT ![t] = "running"]
    /\ UNCHANGED <<lockHeld, cfg, chan, sigState, accepted, nStarts,
                   sdPc, sdResult, nCycles, hasSignalTask, outVars, inVars, mnVars, siVars, natVars, rtrVars>>

\* Every Sender of t's channel is gone: the RuntimeManager is owned by the
\* registry alone, the signal task holds a clone while it lives.
NoSenders(t) == ~Registered(t) /\ sigState[t] = "none"

\* Which top-level task can complete select_all, lib.rs:680-693.
CanCompleteWithoutShutdownTask(t, reason) ==
    CASE reason = "shutdown" -> FALSE
      [] reason = "closed"   -> FALSE
      [] reason = "runners"  -> TRUE
      [] reason = "ctrlc"    -> TRUE
CanComplete(t, reason) ==
    CASE reason = "shutdown" -> chan[t].msgs > 0
      [] reason = "closed"   -> chan[t].msgs = 0 /\ NoSenders(t)
      [] reason = "runners"  -> TRUE
      [] reason = "ctrlc"    -> TRUE

ExitReasons == {"shutdown", "closed", "runners", "ctrlc"}

\* lib.rs:702: rt.block_on(select_all(tasks)) resolves.
SelectDone(t, reason) ==
    /\ pc[t] = "running"
    /\ CanComplete(t, reason)
    /\ pc' = [pc EXCEPT ![t] = "selected"]
    /\ chan' = [chan EXCEPT ![t].msgs = IF reason = "shutdown" THEN @ - 1 ELSE @]
    /\ UNCHANGED <<registry, lockHeld, cfg, sigState, accepted, nStarts,
                   sdPc, sdResult, nCycles, hasSignalTask, outVars, inVars, mnVars, siVars, natVars, rtrVars>>

\* lib.rs:702: the value of block_on is dropped, and with it every task future
\* and the Receiver.
DropTasks(t) ==
    /\ pc[t] = "selected"
    /\ pc' = [pc EXCEPT ![t] = "finishing"]
    /\ chan' = [chan EXCEPT ![t] = ClosedChannel]
    /\ UNCHANGED <<registry, lockHeld, cfg, sigState, accepted, nStarts,
                   sdPc, sdResult, nCycles, hasSignalTask, outVars, inVars, mnVars, siVars, natVars, rtrVars>>

\* lib.rs:762: RUNTIME_MANAGER.lock().unwrap().remove(&INSTANCE_ID)
StartRemove(t) ==
    /\ pc[t] = "finishing"
    /\ ~lockHeld
    /\ registry' = RegistryRemove(registry)
    /\ pc' = [pc EXCEPT ![t] = "removed"]
    /\ UNCHANGED <<lockHeld, cfg, chan, sigState, accepted, nStarts,
                   sdPc, sdResult, nCycles, hasSignalTask, outVars, inVars, mnVars, siVars, natVars, rtrVars>>

\* lib.rs:764-768: rt.shutdown_background() and Ok(()).
StartReturn(t) ==
    /\ pc[t] = "removed"
    /\ pc' = [pc EXCEPT ![t] = "done"]
    /\ sigState' = [sigState EXCEPT ![t] = "none"]
    /\ cfg' = [cfg EXCEPT ![t] = NoCfg]
    /\ accepted' = [accepted EXCEPT ![t] = FALSE]
    /\ nCycles' = IF accepted[t] THEN nCycles + 1 ELSE nCycles
    /\ UNCHANGED <<registry, lockHeld, chan, nStarts,
                   sdPc, sdResult, hasSignalTask, outVars, inVars, mnVars, siVars, natVars, rtrVars>>

\* SIGTERM reaches the process: every live signal task receives it, lib.rs:448-470.
Sigterm ==
    /\ \E t \in Threads : sigState[t] = "armed"
    /\ sigState' = [t \in Threads |-> IF sigState[t] = "armed" THEN "sending" ELSE sigState[t]]
    /\ UNCHANGED <<registry, lockHeld, pc, cfg, chan, accepted, nStarts,
                   sdPc, sdResult, nCycles, hasSignalTask, outVars, inVars, mnVars, siVars, natVars, rtrVars>>

\* lib.rs:476-479: shutdown_tx.send(()).await, then the task ends.
SigSend(t) ==
    /\ sigState[t] = "sending"
    /\ TrySend(chan[t]) # "full"
    /\ chan' = [chan EXCEPT ![t] = Sent(chan[t])]
    /\ sigState' = [sigState EXCEPT ![t] = "none"]
    /\ UNCHANGED <<registry, lockHeld, pc, cfg, accepted, nStarts,
                   sdPc, sdResult, nCycles, hasSignalTask, outVars, inVars, mnVars, siVars, natVars, rtrVars>>

\* shutdown(), lib.rs:121: RUNTIME_MANAGER.lock().unwrap(); the guard lives
\* until shutdown() returns.
ShutdownLock ==
    /\ sdPc = "idle"
    /\ ~lockHeld
    /\ lockHeld' = TRUE
    /\ sdPc' = "locked"
    /\ sdResult' = "none"
    /\ UNCHANGED <<registry, pc, cfg, chan, sigState, accepted, nStarts,
                   nCycles, hasSignalTask, outVars, inVars, mnVars, siVars, natVars, rtrVars>>

\* shutdown(), lib.rs:121-124: the lookup of INSTANCE_ID and, when it is
\* present, blocking_shutdown (lib.rs:103-110), which waits while the channel
\* is full; then the return, which releases the lock.
ShutdownFinish ==
    /\ sdPc = "locked"
    /\ IF ~IsRunning
       THEN /\ sdResult' = "false"
            /\ UNCHANGED <<chan, accepted>>
       ELSE LET t == registry[INSTANCE_ID]
                o == TrySend(chan[t])
            IN  /\ o # "full"
                /\ sdResult' = ShutdownResult(o)
                /\ chan' = [chan EXCEPT ![t] = Sent(chan[t])]
                /\ accepted' = [accepted EXCEPT ![t] = @ \/ o = "sent"]
    /\ sdPc' = "idle"
    /\ lockHeld' = FALSE
    /\ UNCHANGED <<registry, pc, cfg, sigState, nStarts, nCycles, hasSignalTask, outVars, inVars, mnVars, siVars, natVars, rtrVars>>

NextRuntime ==
    \/ \E t \in Threads, c \in Configs, f \in FailPoints : StartInit(t, c, f)
    \/ \E t \in Threads : StartRegister(t)
    \/ \E t \in Threads, r \in ExitReasons : SelectDone(t, r)
    \/ \E t \in Threads : DropTasks(t)
    \/ \E t \in Threads : StartRemove(t)
    \/ \E t \in Threads : StartReturn(t)
    \/ Sigterm
    \/ \E t \in Threads : SigSend(t)
    \/ ShutdownLock
    \/ ShutdownFinish

SpecRuntime == InitRuntime /\ [][NextRuntime]_vars

\* The runs in which the inbound runners never finish and ctrl-c is never
\* pressed: of the top-level tasks only the shutdown monitor can complete.
NextRunnersForever ==
    \/ \E t \in Threads, c \in Configs, f \in FailPoints : StartInit(t, c, f)
    \/ \E t \in Threads : StartRegister(t)
    \/ \E t \in Threads, r \in {"shutdown", "closed"} : SelectDone(t, r)
    \/ \E t \in Threads : DropTasks(t)
    \/ \E t \in Threads : StartRemove(t)
    \/ \E t \in Threads : StartReturn(t)
    \/ Sigterm
    \/ \E t \in Threads : SigSend(t)
    \/ ShutdownLock
    \/ ShutdownFinish

SpecRunnersForever == InitRuntime /\ [][NextRunnersForever]_vars

\* The steps a running thread or a woken sender takes on its own once they are
\* possible: the select resolving on a queued shutdown message, the drop of
\* the task futures, the return and the completion of shutdown()'s
\* blocking_send (weak fairness).  The registry removal waits in Mutex::lock:
\* a thread waiting there gets the lock if it is released again and again
\* (strong fairness).
FairnessRuntime ==
    /\ \A t \in Threads :
          /\ WF_vars(SelectDone(t, "shutdown"))
          /\ WF_vars(DropTasks(t))
          /\ SF_vars(StartRemove(t))
          /\ WF_vars(StartReturn(t))
    /\ WF_vars(ShutdownFinish)

FairSpecRuntime == InitRuntime /\ [][NextRuntime]_vars /\ FairnessRuntime

-----------------------------------------------------------------------------
(* OutboundManager: state machine *)

InitOutbound ==
    /\ outbounds \in SeqsUpTo(OutboundEntries, MaxOutbounds)
    /\ handlers = <<>>
    /\ default_handler = None
    /\ nextId = 1
    /\ obPass = 0
    /\ obPc = "loading"
    /\ nAdds = 0
    /\ tls_configs = <<>>
    /\ RuntimeIdle
    /\ InboundIdle
    /\ MainIdle
    /\ StartInitIdle
    /\ NatIdle
    /\ RouterIdle

\* One iteration of the `for _i in 0..4` loop of OutboundManager::new.
NewLoadPass ==
    /\ obPc = "loading"
    /\ obPass < OutboundPasses
    /\ LET r == LoadHandlers(outbounds, handlers, default_handler, nextId, tls_configs)
       IN  /\ handlers' = r.handlers
           /\ tls_configs' = r.made
           /\ default_handler' = r.default_handler
           /\ nextId' = r.nextId
           /\ obPc' = IF r.err THEN "error" ELSE "loading"
    /\ obPass' = obPass + 1
    /\ UNCHANGED <<outbounds, nAdds, rtVars, inVars, mnVars, siVars, natVars, rtrVars>>

\* OutboundManager::new returns Ok(OutboundManager { .. }).
NewReturn ==
    /\ obPc = "loading"
    /\ obPass = OutboundPasses
    /\ obPc' = "built"
    /\ UNCHANGED <<outbounds, handlers, default_handler, nextId, obPass, nAdds,
                   tls_configs, rtVars, inVars, mnVars, siVars, natVars, rtrVars>>

\* OutboundManager::add(tag, handler) with a handler built by the caller.
Add(tag, htag) ==
    /\ obPc = "built"
    /\ nAdds < MaxAdds
    /\ handlers' = Insert(handlers, tag, BuildHandler(nextId, htag))
    /\ nextId' = nextId + 1
    /\ nAdds' = nAdds + 1
    /\ UNCHANGED <<outbounds, default_handler, obPass, obPc, tls_configs,
                   rtVars, inVars, mnVars, siVars, natVars, rtrVars>>

NextOutbound ==
    \/ NewLoadPass
    \/ NewReturn
    \/ \E tag \in Tags, htag \in Tags : Add(tag, htag)

SpecOutbound == InitOutbound /\ [][NextOutbound]_vars

-----------------------------------------------------------------------------
(* InboundManager::new: state machine *)

InitInbound ==
    /\ inbounds \in SeqsUpTo(InboundEntries, MaxInbounds)
    /\ arcs = <<>>
    /\ inHandlers = EmptyMap
    /\ network_listeners = EmptyMap
    /\ tun_listener = None
    /\ cat_listener = None
    /\ tun_auto = FALSE
    /\ ibPass = 0
    /\ ibPc = "start"
    /\ OutboundIdle
    /\ RuntimeIdle
    /\ MainIdle
    /\ StartInitIdle
    /\ NatIdle
    /\ RouterIdle

\* The first loop of InboundManager::new: the handlers of the plain protocols.
InboundBase ==
    /\ ibPc = "start"
    /\ LET r == BaseLoop([arcs |-> arcs, map |-> inHandlers, err |-> FALSE], inbounds, 1)
       IN  /\ arcs' = r.arcs
           /\ inHandlers' = r.map
           /\ ibPc' = IF r.err THEN "error" ELSE "base"
    /\ UNCHANGED <<inbounds, network_listeners, tun_listener, cat_listener, tun_auto, ibPass,
                   outVars, rtVars, mnVars, siVars, natVars, rtrVars>>

\* One iteration of the `for _i in 0..4` loop of InboundManager::new.
InboundPass ==
    /\ ibPc = "base"
    /\ ibPass < InboundPasses
    /\ LET r == PassLoop([arcs |-> arcs, map |-> inHandlers, err |-> FALSE], inbounds, 1)
       IN  /\ arcs' = r.arcs
           /\ inHandlers' = r.map
           /\ ibPc' = IF r.err THEN "error" ELSE "base"
    /\ ibPass' = ibPass + 1
    /\ UNCHANGED <<inbounds, network_listeners, tun_listener, cat_listener, tun_auto,
                   outVars, rtVars, mnVars, siVars, natVars, rtrVars>>

\* The listener loop and `Ok(InboundManager { .. })`.
InboundListeners ==
    /\ ibPc = "base"
    /\ ibPass = InboundPasses
    /\ LET r == ListenerLoop([listeners |-> network_listeners, map |-> inHandlers,
                              tun |-> tun_listener, cat |-> cat_listener,
                              auto |-> tun_auto, err |-> FALSE],
                             inbounds, 1)
       IN  /\ network_listeners' = r.listeners
           /\ tun_listener' = r.tun
           /\ cat_listener' = r.cat
           /\ tun_auto' = r.auto
           /\ ibPc' = IF r.err THEN "error" ELSE "built"
    /\ UNCHANGED <<inbounds, arcs, inHandlers, ibPass, outVars, rtVars, mnVars, siVars, natVars, rtrVars>>

NextInbound ==
    \/ InboundBase
    \/ InboundPass
    \/ InboundListeners

SpecInbound == InitInbound /\ [][NextInbound]_vars

\* The configs without rejected settings, with the composite inbounds under
\* tag c naming the actors a and b, and the tun and cat inbounds under tag a.
CoreInboundEntries ==
    {e \in InboundEntries :
        /\ e.settings.ok
        /\ ~e.settings.auto
        /\ e.protocol \in CompositeProtocols =>
              (e.tag = "c" /\ RangeOf(e.settings.actors) \subseteq {"a", "b"})
        /\ e.protocol \in ListenerProtocols => e.tag = "a"}

InitInboundCore ==
    /\ inbounds \in SeqsUpTo(CoreInboundEntries, MaxInbounds)
    /\ arcs = <<>>
    /\ inHandlers = EmptyMap
    /\ network_listeners = EmptyMap
    /\ tun_listener = None
    /\ cat_listener = None
    /\ tun_auto = FALSE
    /\ ibPass = 0
    /\ ibPc = "start"
    /\ OutboundIdle
    /\ RuntimeIdle
    /\ MainIdle
    /\ StartInitIdle
    /\ NatIdle
    /\ RouterIdle

SpecInboundCore == InitInboundCore /\ [][NextInbound]_vars

-----------------------------------------------------------------------------
(* main: state machine *)

InitMain ==
    /\ args \in ArgSets
    /\ mainPc = "version"
    /\ exitCode = None
    /\ stdout = <<>>
    /\ mainRt = NoRuntime
    /\ probed = FALSE
    /\ OutboundIdle
    /\ RuntimeIdle
    /\ InboundIdle
    /\ StartInitIdle
    /\ NatIdle
    /\ RouterIdle

\* main.rs:74-77: -V prints the version and exits 0.
MainVersion ==
    /\ mainPc = "version"
    /\ IF args.version
       THEN /\ stdout' = Append(stdout, "version")
            /\ exitCode' = Exit(0)
            /\ mainPc' = "exited"
       ELSE /\ mainPc' = "test"
            /\ UNCHANGED <<stdout, exitCode>>
    /\ UNCHANGED <<args, mainRt, probed, outVars, rtVars, inVars, siVars, natVars, rtrVars>>

\* main.rs:79-87: -T tests the config and exits.
MainTest ==
    /\ mainPc = "test"
    /\ IF args.test
       THEN LET e == TestExit(TestConfig(args))
            IN  /\ stdout' = Append(stdout, e.line)
                /\ exitCode' = Exit(e.code)
                /\ mainPc' = "exited"
       ELSE /\ mainPc' = "env"
            /\ UNCHANGED <<stdout, exitCode>>
    /\ UNCHANGED <<args, mainRt, probed, outVars, rtVars, inVars, siVars, natVars, rtrVars>>

\* main.rs:88-108: current_dir().unwrap(), the tun2socks path line and the
\* OUTBOUND_INTERFACE variable.
MainEnv ==
    /\ mainPc = "env"
    /\ IF args.cwdOk
       THEN /\ stdout' = Append(stdout, "tun2socks path")
            /\ mainPc' = "probe"
            /\ UNCHANGED exitCode
       ELSE /\ exitCode' = PanickedExit
            /\ mainPc' = "exited"
            /\ UNCHANGED stdout
    /\ UNCHANGED <<args, mainRt, probed, outVars, rtVars, inVars, siVars, natVars, rtrVars>>

\* main.rs:110-137: -t loads the config, builds a current-thread runtime,
\* runs the probe and exits.
MainTestOutbound(r) ==
    /\ mainPc = "probe"
    /\ IF ~IsSome(args.test_outbound)
       THEN /\ mainPc' = "run"
            /\ UNCHANGED <<stdout, exitCode, mainRt, probed>>
       ELSE IF ~FromFile(args.config, ParseFail(args))
       THEN /\ exitCode' = PanickedExit         \* from_file(..).unwrap()
            /\ mainPc' = "exited"
            /\ UNCHANGED <<stdout, mainRt, probed>>
       ELSE /\ mainRt' = CurrentThreadRuntime
            /\ probed' = TRUE
            /\ mainPc' = "exited"
            /\ IF r.err
               THEN /\ stdout' = Append(stdout, "test outbound failed")
                    /\ exitCode' = Exit(1)
               ELSE /\ stdout' = stdout \o ProbeLines(r)
                    /\ exitCode' = Exit(0)
    /\ UNCHANGED <<args, outVars, rtVars, inVars, siVars, natVars, rtrVars>>

\* main.rs:139-149: run_with_options(args.config), which starts the instance
\* on the file; an Err is printed and the exit is 1.
MainRun(fail, sig) ==
    /\ mainPc = "run"
    /\ LET f == IF args.unreadable THEN "parse" ELSE fail
           o == InitOutcome(args.config, f, sig)
       IN  /\ mainRt' = IF FromFile(args.config, f) /\ f # "runtime"
                        THEN NewRuntime(args) ELSE NoRuntime
           /\ CASE o = "failed" ->
                      /\ stdout' = Append(stdout, "start ostrich failed")
                      /\ exitCode' = Exit(1)
                      /\ mainPc' = "exited"
                [] o = "panicked" ->
                      /\ exitCode' = PanickedExit
                      /\ mainPc' = "exited"
                      /\ UNCHANGED stdout
                [] o = "ready" ->
                      /\ mainPc' = "running"
                      /\ UNCHANGED <<stdout, exitCode>>
    /\ UNCHANGED <<args, probed, outVars, rtVars, inVars, siVars, natVars, rtrVars>>

\* main.rs:139-150: run_with_options returns Ok and main returns.
MainReturn ==
    /\ mainPc = "running"
    /\ exitCode' = Exit(0)
    /\ mainPc' = "exited"
    /\ UNCHANGED <<args, stdout, mainRt, probed, outVars, rtVars, inVars, siVars, natVars, rtrVars>>

NextMain ==
    \/ MainVersion
    \/ MainTest
    \/ MainEnv
    \/ \E r \in ProbeResults : MainTestOutbound(r)
    \/ \E f \in FailPoints \ {"parse"}, sig \in BOOLEAN : MainRun(f, sig)
    \/ MainReturn

SpecMain == InitMain /\ [][NextMain]_vars

-----------------------------------------------------------------------------
(* start: the initialisation statement by statement, state machine *)

InitStartInit ==
    /\ siIn \in StartInputs
    /\ siPc = StartSteps[1]
    /\ components = {}
    /\ dns_dispatcher = "none"
    /\ OutboundIdle
    /\ RuntimeIdle
    /\ InboundIdle
    /\ MainIdle
    /\ NatIdle
    /\ RouterIdle

\* The thread that makes the call.
SiThread == CHOOSE t \in Threads : TRUE

\* lib.rs:183-194: the shutdown channel and the config.
SiConfig ==
    /\ Advance("config")
    /\ UNCHANGED <<siIn, dns_dispatcher, outVars, rtVars, inVars, mnVars, natVars, rtrVars>>

\* lib.rs:198-199: new_runtime()? and rt.enter().
SiRuntime ==
    /\ Advance("runtime")
    /\ UNCHANGED <<siIn, dns_dispatcher, outVars, rtVars, inVars, mnVars, natVars, rtrVars>>

\* lib.rs:204-206: DnsClient::new(&config.dns)?.
SiDnsClient ==
    /\ Advance("dns")
    /\ UNCHANGED <<siIn, dns_dispatcher, outVars, rtVars, inVars, mnVars, natVars, rtrVars>>

\* lib.rs:208-214: the ipset, with config.router.rules[0].
SiIpset ==
    /\ siPc = "ipset"
    /\ IF siIn.config.rules = "none"
       THEN /\ siPc' = "panic"
            /\ UNCHANGED components
       ELSE /\ siPc' = StepAfter("ipset")
            /\ components' = components \cup StepBuilds("ipset", siIn)
    /\ UNCHANGED <<siIn, dns_dispatcher, outVars, rtVars, inVars, mnVars, natVars, rtrVars>>

\* lib.rs:216-218: OutboundManager::new(..)?.
SiOutboundManager ==
    /\ Advance("outbound")
    /\ UNCHANGED <<siIn, dns_dispatcher, outVars, rtVars, inVars, mnVars, natVars, rtrVars>>

\* lib.rs:219-222: Router::new(&mut config.router, dns_client).
SiRouter ==
    /\ Advance("router")
    /\ UNCHANGED <<siIn, dns_dispatcher, outVars, rtVars, inVars, mnVars, natVars, rtrVars>>

\* lib.rs:223-233: Dispatcher::new(outbound_manager, router, dns_client).
SiDispatcher ==
    /\ Advance("dispatcher")
    /\ UNCHANGED <<siIn, dns_dispatcher, outVars, rtVars, inVars, mnVars, natVars, rtrVars>>

\* lib.rs:235-242: Arc::downgrade(&dispatcher) and replace_dispatcher.
SiReplaceDispatcher ==
    /\ Advance("backref")
    /\ dns_dispatcher' = "weak"
    /\ UNCHANGED <<siIn, outVars, rtVars, inVars, mnVars, natVars, rtrVars>>

\* lib.rs:244: NatManager::new(dispatcher.clone()).
SiNatManager ==
    /\ Advance("nat")
    /\ UNCHANGED <<siIn, dns_dispatcher, outVars, rtVars, inVars, mnVars, natVars, rtrVars>>

\* lib.rs:245-256: InboundManager::new(..)?.
SiInboundManager ==
    /\ Advance("inbound")
    /\ UNCHANGED <<siIn, dns_dispatcher, outVars, rtVars, inVars, mnVars, natVars, rtrVars>>

\* lib.rs:258-303: get_network_runners()? and the tun runner.
SiRunners ==
    /\ Advance("runners")
    /\ UNCHANGED <<siIn, dns_dispatcher, outVars, rtVars, inVars, mnVars, natVars, rtrVars>>

\* lib.rs:305-637: Signals::new(..)? and the spawned watcher task.
SiSignals ==
    /\ Advance("signals")
    /\ UNCHANGED <<siIn, dns_dispatcher, outVars, rtVars, inVars, mnVars, natVars, rtrVars>>

\* lib.rs:642-693: RuntimeManager::new and the top-level tasks.
SiRuntimeManager ==
    /\ Advance("manager")
    /\ UNCHANGED <<siIn, dns_dispatcher, outVars, rtVars, inVars, mnVars, natVars, rtrVars>>

\* lib.rs:695-698: the registry insert.
SiRegister ==
    /\ Advance("register")
    /\ registry' = RegistryInsert(registry, SiThread)
    /\ UNCHANGED <<siIn, dns_dispatcher, lockHeld, pc, cfg, chan, sigState, accepted,
                   nStarts, sdPc, sdResult, nCycles, hasSignalTask,
                   outVars, inVars, mnVars, natVars, rtrVars>>

NextStartInit ==
    \/ SiConfig
    \/ SiRuntime
    \/ SiDnsClient
    \/ SiIpset
    \/ SiOutboundManager
    \/ SiRouter
    \/ SiDispatcher
    \/ SiReplaceDispatcher
    \/ SiNatManager
    \/ SiInboundManager
    \/ SiRunners
    \/ SiSignals
    \/ SiRuntimeManager
    \/ SiRegister

SpecStartInit == InitStartInit /\ [][NextStartInit]_vars

-----------------------------------------------------------------------------
(* NatManager: state machine *)

InitNat ==
    /\ NatIdle
    /\ OutboundIdle
    /\ RuntimeIdle
    /\ InboundIdle
    /\ MainIdle
    /\ StartInitIdle
    /\ RouterIdle

\* send_packet, step 1: look up (source, destination) in the map.
NatLookup(c, key) ==
    /\ natCall[c].pc = "idle"
    /\ nPackets < MaxPackets
    /\ nPackets' = nPackets + 1
    /\ natCall' = [natCall EXCEPT ![c] =
                      IF HasEntry(nat_entries, key)
                      THEN [pc |-> "write", key |-> key,
                            endpoint |-> EntryOf(nat_entries, key).endpoint,
                            discarded |-> FALSE]
                      ELSE [pc |-> "dial", key |-> key, endpoint |-> NoEndpoint,
                            discarded |-> FALSE]]
    /\ UNCHANGED <<nat_entries, nextEndpoint, nReaps,
                   outVars, rtVars, inVars, mnVars, siVars, rtrVars>>

\* send_packet, step 2: the dispatcher produces an outbound datagram endpoint.
NatDial(c) ==
    /\ natCall[c].pc = "dial"
    /\ natCall' = [natCall EXCEPT ![c].pc = "install", ![c].endpoint = nextEndpoint]
    /\ nextEndpoint' = nextEndpoint + 1
    /\ UNCHANGED <<nat_entries, nPackets, nReaps,
                   outVars, rtVars, inVars, mnVars, siVars, rtrVars>>

\* send_packet, step 2: install the entry; the loser of a concurrent insert
\* discards its endpoint and uses the installed one.
NatInstall(c) ==
    /\ natCall[c].pc = "install"
    /\ nat_entries' = InstallEntry(nat_entries, natCall[c].key, natCall[c].endpoint)
    /\ natCall' = [natCall EXCEPT
                      ![c].pc = "write",
                      ![c].discarded = HasEntry(nat_entries, natCall[c].key),
                      ![c].endpoint =
                          IF HasEntry(nat_entries, natCall[c].key)
                          THEN EntryOf(nat_entries, natCall[c].key).endpoint
                          ELSE natCall[c].endpoint]
    /\ UNCHANGED <<nextEndpoint, nPackets, nReaps,
                   outVars, rtVars, inVars, mnVars, siVars, rtrVars>>

\* send_packet, step 3: write the payload to the endpoint, update last-used.
NatWrite(c) ==
    /\ natCall[c].pc = "write"
    /\ natCall' = [natCall EXCEPT ![c] = IdleCall]
    /\ UNCHANGED <<nat_entries, nextEndpoint, nPackets, nReaps,
                   outVars, rtVars, inVars, mnVars, siVars, rtrVars>>

\* The periodic sweep reaps a key's entry: the downlink task is cancelled and
\* the endpoint closed.
NatReap(key) ==
    /\ HasEntry(nat_entries, key)
    /\ nReaps < MaxReaps
    /\ nat_entries' = ReapEntry(nat_entries, key)
    /\ nReaps' = nReaps + 1
    /\ UNCHANGED <<natCall, nextEndpoint, nPackets,
                   outVars, rtVars, inVars, mnVars, siVars, rtrVars>>

NextNat ==
    \/ \E c \in NatCallers, key \in NatKeys : NatLookup(c, key)
    \/ \E c \in NatCallers : NatDial(c)
    \/ \E c \in NatCallers : NatInstall(c)
    \/ \E c \in NatCallers : NatWrite(c)
    \/ \E key \in NatKeys : NatReap(key)

SpecNat == InitNat /\ [][NextNat]_vars

-----------------------------------------------------------------------------
(* Router: state machine *)

InitRouter ==
    /\ outbounds \in SeqsUpTo(RouterOutboundEntries, MaxOutbounds)
    /\ handlers = <<>>
    /\ default_handler = None
    /\ nextId = 1
    /\ obPass = 0
    /\ obPc = "loading"
    /\ nAdds = 0
    /\ tls_configs = <<>>
    /\ rules \in SeqsUpTo(RouterRules, MaxRules)
    /\ session \in Sessions
    /\ routed = <<>>
    /\ RuntimeIdle
    /\ InboundIdle
    /\ MainIdle
    /\ StartInitIdle
    /\ NatIdle

\* One route lookup of the dispatcher for the session.
RouteQuery ==
    /\ obPc = "built"
    /\ Len(routed) < MaxQueries
    /\ routed' = Append(routed, Route(rules, session, default_handler))
    /\ UNCHANGED <<rules, session, outVars, rtVars, inVars, mnVars, siVars, natVars>>

NextRouter ==
    \/ NewLoadPass
    \/ NewReturn
    \/ RouteQuery

SpecRouter == InitRouter /\ [][NextRouter]_vars

-----------------------------------------------------------------------------
(* OutboundManager: accessors and derived notions *)

\* OutboundManager::get
ManagerGet(tag) == Get(handlers, tag)

\* OutboundManager::default_handler
DefaultHandler == default_handler

\* OutboundManager::new has returned Ok and no add has been made since.
JustBuilt == obPc = "built" /\ nAdds = 0

\* The handler instances held by the catalog.
Instances == {handlers[i].h.id : i \in 1..Len(handlers)}

Pair(ob) == <<ob.protocol, ob.settings>>

\* The outbounds load_handlers builds or clones a handler for: a supported
\* protocol, and no earlier outbound of the same tag with a supported protocol.
Effective(i) ==
    /\ Supported(outbounds[i].protocol)
    /\ \A j \in 1..(i - 1) :
          outbounds[j].tag = outbounds[i].tag => ~Supported(outbounds[j].protocol)

EffectiveIdx == {i \in 1..Len(outbounds) : Effective(i)}

\* The first effective outbound with the same (protocol, settings) pair as outbound i.
FirstWithPair(i) ==
    CHOOSE k \in EffectiveIdx :
        /\ Pair(outbounds[k]) = Pair(outbounds[i])
        /\ \A j \in EffectiveIdx : Pair(outbounds[j]) = Pair(outbounds[i]) => k <= j

-----------------------------------------------------------------------------
(* Claims about OutboundManager *)

\* C1 (as stated): after OutboundManager::new, the number of distinct handler
\* instances in the catalog equals the number of distinct (protocol, settings)
\* pairs occurring in the outbound list, for every outbound list.
C1_InstancesEqualAllPairs ==
    JustBuilt =>
        Cardinality(Instances) = Cardinality({Pair(outbounds[i]) : i \in 1..Len(outbounds)})

\* C1 (amended): after OutboundManager::new, the number of distinct handler
\* instances in the catalog equals the number of distinct (protocol, settings)
\* pairs among the outbounds that have a supported protocol (direct, trojan)
\* and are the first such outbound of their tag.
C1_InstancesEqualEffectivePairs ==
    JustBuilt =>
        Cardinality(Instances) = Cardinality({Pair(outbounds[i]) : i \in EffectiveIdx})

\* C1 witness: new has returned on a list with a repeated tag, an unsupported
\* protocol and two effective outbounds sharing one instance.
C1_Witness ==
    /\ JustBuilt
    /\ Len(handlers) = 2
    /\ Cardinality(Instances) = 1
    /\ \E i \in 1..Len(outbounds) : ~Supported(outbounds[i].protocol)
    /\ \E i, j \in 1..Len(outbounds) : i # j /\ outbounds[i].tag = outbounds[j].tag

\* C2 (as stated): any two outbounds with different tags and identical
\* protocol and settings both resolve after new, to the same instance, the one
\* built for whichever of the two comes first in the config.
C2_SamePairSameInstance ==
    JustBuilt =>
        \A i, j \in 1..Len(outbounds) :
            (/\ i < j
             /\ outbounds[i].tag # outbounds[j].tag
             /\ Pair(outbounds[i]) = Pair(outbounds[j]))
            => /\ IsSome(ManagerGet(outbounds[i].tag))
               /\ IsSome(ManagerGet(outbounds[j].tag))
               /\ Unwrap(ManagerGet(outbounds[i].tag)).id = Unwrap(ManagerGet(outbounds[j].tag)).id
               /\ Unwrap(ManagerGet(outbounds[i].tag)).tag = outbounds[i].tag

\* C2 (amended): any two effective outbounds (supported protocol, first such
\* outbound of their tag) with different tags and identical protocol and
\* settings both resolve after new, to the same instance, the one built for the
\* first effective outbound of the config that has this protocol and settings.
C2_EffectiveSamePairSameInstance ==
    JustBuilt =>
        \A i, j \in EffectiveIdx :
            (/\ i < j
             /\ outbounds[i].tag # outbounds[j].tag
             /\ Pair(outbounds[i]) = Pair(outbounds[j]))
            => /\ IsSome(ManagerGet(outbounds[i].tag))
               /\ IsSome(ManagerGet(outbounds[j].tag))
               /\ Unwrap(ManagerGet(outbounds[i].tag)).id = Unwrap(ManagerGet(outbounds[j].tag)).id
               /\ Unwrap(ManagerGet(outbounds[i].tag)).tag = outbounds[FirstWithPair(i)].tag

\* C2 witness: new has returned on a list whose tags a and b are effective
\* trojan outbounds with the same settings, and both resolve.
C2_Witness ==
    /\ JustBuilt
    /\ \E i, j \in EffectiveIdx :
          /\ i < j
          /\ outbounds[i].tag # outbounds[j].tag
          /\ outbounds[i].protocol = "trojan"
          /\ Pair(outbounds[i]) = Pair(outbounds[j])
          /\ IsSome(ManagerGet(outbounds[i].tag))
          /\ IsSome(ManagerGet(outbounds[j].tag))

\* C3: after OutboundManager::new, default_handler() is the first key of the
\* insertion-ordered handler map, and None exactly when the map is empty.
C3_DefaultIsFirstKey ==
    JustBuilt =>
        DefaultHandler = (IF handlers = <<>> THEN None ELSE Some(handlers[1].tag))

\* C15: after OutboundManager::new, the handler get(t) returns for a key t of
\* the catalog reports t as its own tag.
C15_HandlerReportsItsKey ==
    JustBuilt => \A i \in 1..Len(handlers) : handlers[i].h.tag = handlers[i].tag

\* OutboundManager::handlers: the values of the catalog in the map's order.
HandlersIter == [i \in 1..Len(handlers) |-> handlers[i].h]

\* The keys of a catalog in the map's order.
KeysOf(hs) == [i \in 1..Len(hs) |-> hs[i].tag]

IsPrefix(p, q) == Len(p) <= Len(q) /\ \A i \in 1..Len(p) : p[i] = q[i]

\* The first outbound of the config that carries the tag.
FirstOccurrence(tag) ==
    CHOOSE i \in 1..Len(outbounds) :
        outbounds[i].tag = tag /\ \A j \in 1..(i - 1) : outbounds[j].tag # tag

\* The outbound of the config that installs the tag.
InstallingIndex(tag) == CHOOSE i \in EffectiveIdx : outbounds[i].tag = tag

\* The catalog's keys are in the config order of the outbounds that installed them.
InInstallingOrder ==
    \A i, j \in 1..Len(handlers) :
        i < j => InstallingIndex(handlers[i].tag) < InstallingIndex(handlers[j].tag)

\* handlers() yields, position by position, the handler get returns for the key.
IterFollowsKeys ==
    \A i \in 1..Len(handlers) : HandlersIter[i] = Unwrap(ManagerGet(handlers[i].tag))

\* C16 (as stated): after OutboundManager::new the catalog's order is the
\* config order of the first occurrence of each tag it holds.
C16_OrderOfFirstOccurrence ==
    JustBuilt =>
        \A i, j \in 1..Len(handlers) :
            i < j => FirstOccurrence(handlers[i].tag) < FirstOccurrence(handlers[j].tag)

\* C16 (amended): no step changes the position of a key the catalog holds, new
\* keys go to the end, and after OutboundManager::new the catalog's order is
\* the config order of the outbounds that installed its tags; handlers()
\* yields the values in that order.
C16_InsertionOrdered ==
    [][/\ IsPrefix(KeysOf(handlers), KeysOf(handlers'))
       /\ (JustBuilt => InInstallingOrder /\ IterFollowsKeys)'
      ]_vars

\* C16 witness: new has returned with two tags in the catalog, on a config in
\* which an outbound of an unsupported protocol comes before the outbound that
\* installs its tag.
C16_Witness ==
    /\ JustBuilt
    /\ Len(handlers) = 2
    /\ \E i \in EffectiveIdx : FirstOccurrence(outbounds[i].tag) < i

\* The handler instances of the catalog that were built for a trojan outbound.
TrojanInstances ==
    {handlers[i].h.id : i \in {k \in 1..Len(handlers) :
                                 outbounds[InstallingIndex(handlers[k].tag)].protocol = "trojan"}}

\* Each make_config call made one config, for one trojan handler of the
\* catalog, held by both of its dialers; no handler got two.
OneConfigPerTrojanHandler ==
    /\ {tls_configs[k].handler : k \in 1..Len(tls_configs)} = TrojanInstances
    /\ Len(tls_configs) = Cardinality(TrojanInstances)
    /\ \A k \in 1..Len(tls_configs) :
          tls_configs[k].stream = k /\ tls_configs[k].datagram = k

\* C17: during OutboundManager::new make_config is called once for each
\* distinct trojan handler instance, not for a deduplicated tag and not in the
\* passes after the first, and the handler's stream and datagram dialers hold
\* that one config.
C17_OneTlsConfigPerHandler ==
    [][/\ obPass >= 1 => tls_configs' = tls_configs
       /\ ((obPc # "error" /\ nAdds = 0) => OneConfigPerTrojanHandler)'
      ]_vars

\* C17 witness: new has returned on two trojan outbounds with the same
\* settings: one handler instance under two tags, and one make_config call.
C17_Witness ==
    /\ JustBuilt
    /\ Len(handlers) = 2
    /\ handlers[1].h.id = handlers[2].h.id
    /\ Len(tls_configs) = 1

\* The outbound of the config a handler instance was built from.
BuiltFrom(h) == outbounds[InstallingIndex(h.tag)]

\* The catalog entry of the tag has the protocol and settings of outbound w.
EntryIsOf(tag, w) == Pair(BuiltFrom(Unwrap(ManagerGet(tag)))) = Pair(outbounds[w])

\* For every key of the catalog the first outbound of the config with that
\* tag is the one the entry was made for.
FirstOccurrenceWins ==
    \A i \in 1..Len(handlers) : EntryIsOf(handlers[i].tag, FirstOccurrence(handlers[i].tag))

\* For every key of the catalog the first outbound of the config with that
\* tag and a supported protocol is the one the entry was made for.
FirstSupportedOccurrenceWins ==
    \A i \in 1..Len(handlers) : EntryIsOf(handlers[i].tag, InstallingIndex(handlers[i].tag))

\* A call of load_handlers keeps every entry the catalog holds as it is.
KeepsEntries ==
    /\ Len(handlers) <= Len(handlers')
    /\ \A i \in 1..Len(handlers) : handlers'[i] = handlers[i]

\* The passes after the first change neither the catalog nor the default.
LaterPassesChangeNothing ==
    obPass >= 1 => (handlers' = handlers /\ default_handler' = default_handler)

\* C23 (as stated): a call of load_handlers never rebuilds or replaces an
\* entry of the catalog, the first occurrence of a repeated tag wins, and the
\* passes 2, 3 and 4 of new leave the catalog and default_handler unchanged.
C23_FirstOccurrenceOfTagWins ==
    [][/\ obPass' = obPass + 1 => (KeepsEntries /\ LaterPassesChangeNothing)
       /\ (JustBuilt => FirstOccurrenceWins)'
      ]_vars

\* C23 (amended): a call of load_handlers never rebuilds or replaces an entry
\* of the catalog, the first occurrence of a tag with a supported protocol
\* (direct, trojan) wins, and the passes 2, 3 and 4 of new leave the catalog
\* and default_handler unchanged.
C23_FirstSupportedOccurrenceWins ==
    [][/\ obPass' = obPass + 1 => (KeepsEntries /\ LaterPassesChangeNothing)
       /\ (JustBuilt => FirstSupportedOccurrenceWins)'
      ]_vars

\* C23 witness: new has made its four passes on a config in which a tag occurs
\* twice with supported protocols and different settings, and the catalog
\* holds the tag.
C23_Witness ==
    /\ JustBuilt
    /\ obPass = OutboundPasses
    /\ \E i, j \in 1..Len(outbounds) :
          /\ i < j
          /\ outbounds[i].tag = outbounds[j].tag
          /\ Supported(outbounds[i].protocol)
          /\ Supported(outbounds[j].protocol)
          /\ Pair(outbounds[i]) # Pair(outbounds[j])
          /\ IsSome(ManagerGet(outbounds[i].tag))

\* C24: after OutboundManager::new and any sequence of add calls, a tag that
\* default_handler() returns resolves with get.
C24_DefaultResolves ==
    obPc = "built" =>
        (IsSome(DefaultHandler) => IsSome(ManagerGet(Unwrap(DefaultHandler))))

\* C25: every handler OutboundManager::new puts in the catalog has a stream
\* and a datagram capability; an outbound of a protocol other than direct and
\* trojan causes no error, and a tag that only such outbounds carry has no
\* catalog entry.
C25_BuiltHandlersHaveBothCapabilities ==
    /\ JustBuilt =>
          /\ \A i \in 1..Len(handlers) : handlers[i].h.stream /\ handlers[i].h.datagram
          /\ \A tag \in Tags :
                ContainsKey(handlers, tag) <=>
                    \E i \in 1..Len(outbounds) :
                        outbounds[i].tag = tag /\ Supported(outbounds[i].protocol)
    /\ obPc = "error" =>
          \E i \in 1..Len(outbounds) :
              outbounds[i].protocol = "trojan" /\ ~ParseOk(outbounds[i].settings)

\* C25 witness: new has returned on a config with a trojan outbound, which is
\* in the catalog, and an outbound of another protocol, whose tag is not.
C25_Witness ==
    /\ JustBuilt
    /\ \E i, j \in 1..Len(outbounds) :
          /\ outbounds[i].protocol = "trojan"
          /\ IsSome(ManagerGet(outbounds[i].tag))
          /\ ~Supported(outbounds[j].protocol)
          /\ ~IsSome(ManagerGet(outbounds[j].tag))

-----------------------------------------------------------------------------
(* Claims about start, shutdown and the instance registry *)

\* The start calls that hold a place in the registry's life: inserted, not yet removed.
Live(t) == pc[t] \in {"running", "selected", "finishing"}

\* C4: a start made while an instance is registered never replaces the
\* registered RuntimeManager: a registered entry stays as it is until removed.
C4_RegisteredNeverReplaced ==
    [][(IsRunning /\ INSTANCE_ID \in DOMAIN registry') => registry' = registry]_vars

\* C5: once shutdown() has returned true for a start call, that call
\* eventually returns, and the instance id is eventually absent from the
\* registry.
C5_ShutdownLiveness ==
    /\ \A t \in Threads : accepted[t] ~> (pc[t] = "done")
    /\ \A t \in Threads : (accepted[t] /\ Live(t)) ~> ~IsRunning

\* C5 witness: a thread whose first start was shut down and returned has
\* started afresh, registered, been shut down again and removed the id.
C5_Witness ==
    \E t \in Threads :
        /\ nCycles = 1
        /\ nStarts = 2
        /\ \A u \in Threads \ {t} : pc[u] = "idle"
        /\ accepted[t]
        /\ pc[t] = "removed"
        /\ ~IsRunning

\* A step in which a shutdown() call returns.
ShutdownReturns == sdPc = "locked" /\ sdPc' = "idle"

\* C6 (as stated): shutdown() returns true whenever an instance is registered,
\* and false only when none is.
C6_TrueIffRegistered ==
    [][ShutdownReturns => (sdResult' = "true" <=> IsRunning)]_vars

\* C6 (amended): shutdown() returns true exactly when an instance is
\* registered and the receiver of its shutdown channel has not been dropped
\* yet; it returns false when no instance is registered or when the registered
\* instance's start has already left block_on.
C6_TrueIffRegisteredAndReceiving ==
    [][ShutdownReturns =>
          (sdResult' = "true" <=> (IsRunning /\ chan[registry[INSTANCE_ID]].rxOpen))]_vars

\* C6 witness: shutdown() has returned true for the registered, running instance.
C6_Witness ==
    \E t \in Threads :
        Registered(t) /\ pc[t] = "running" /\ accepted[t] /\ sdResult = "true"

\* C7: a start whose config has a rule targeting an undefined outbound tag
\* fails with a configuration error and never reaches the running state.
C7_DanglingRuleNeverRuns ==
    \A t \in Threads : (Live(t) \/ pc[t] = "removed") => cfg[t].rules # "dangling"

\* The task spawned on t's runtime at lib.rs:329 (the interface and signal
\* watcher) has not finished and has not been cancelled.
TaskRunning(t) == sigState[t] # "none"

\* C11: at the moment start has removed the instance id from the registry, no
\* task spawned on that instance's runtime is still running.
C11_NoTaskAtRemoval ==
    \A t \in Threads : pc[t] = "removed" => ~TaskRunning(t)

\* C28: a start call leaves the running state when the first of its top-level
\* tasks completes; when its runners never finish and ctrl-c is not pressed,
\* it stays blocked until a shutdown message has arrived on its channel.
C28_BlockedUntilShutdownMessage ==
    [][\A t \in Threads :
          (pc[t] = "running" /\ pc'[t] = "selected") => chan[t].msgs > 0]_vars

\* C29: under every interleaving of start calls is_running() is true exactly
\* when some start call has inserted into the registry and has not yet
\* executed its removal.
C29_RunningIffSomeStartLive ==
    IsRunning <=> \E t \in Threads : Live(t)

\* shutdown() is inside blocking_send, waiting for capacity, with the registry
\* mutex held.
ShutdownWaits ==
    /\ sdPc = "locked"
    /\ IsRunning
    /\ TrySend(chan[registry[INSTANCE_ID]]) = "full"

\* C30: every call of shutdown() returns, and while it waits in blocking_send
\* with the registry mutex held, the start call that owns the channel is at a
\* point where it goes on without the mutex: no deadlock between the mutex
\* and the channel.
C30_ShutdownTerminates ==
    /\ [](ShutdownWaits => pc[registry[INSTANCE_ID]] \in {"running", "selected"})
    /\ (sdPc = "locked") ~> (sdPc = "idle")

\* C30 witness: a shutdown() call waits on the full channel, with the mutex
\* held, for a start call for which an earlier shutdown() returned true.
C30_Witness ==
    ShutdownWaits /\ accepted[registry[INSTANCE_ID]]

-----------------------------------------------------------------------------
(* Claims about main *)

\* The process has exited from the -T branch.
ExitedFromTest == mainPc = "exited" /\ args.test /\ ~args.version

\* C12: with -T and without -V the process prints ok and exits 0 exactly when
\* test_config succeeds, prints the error and exits 1 otherwise, and neither
\* builds a runtime nor probes an outbound.
C12_TestOnlyTestsConfig ==
    ExitedFromTest =>
        /\ TestConfig(args) => (exitCode = Some(0) /\ stdout = <<"ok">>)
        /\ ~TestConfig(args) => (exitCode = Some(1) /\ stdout = <<"error">>)
        /\ mainRt = NoRuntime
        /\ ~probed

\* C12 witness: a -T run on a file that test_config rejects has exited.
C12_Witness == ExitedFromTest /\ ~TestConfig(args) /\ exitCode = Some(1)

\* The process has exited after taking the -t branch.
ExitedFromProbe ==
    /\ mainPc = "exited"
    /\ ~args.version /\ ~args.test /\ args.cwdOk
    /\ IsSome(args.test_outbound)

\* C13: with -t every run ends with exit status 0 or 1: 0 with one TCP and
\* one UDP line when the probe run completes, 1 on every fatal error, a config
\* file that cannot be loaded included.
C13_ProbeExitsZeroOrOne ==
    ExitedFromProbe =>
        /\ exitCode \in {Some(0), Some(1)}
        /\ exitCode = Some(0) => (probed /\ Len(stdout) = 3)
        /\ ~FromFile(args.config, ParseFail(args)) => exitCode = Some(1)

\* C14: with --single-thread the runtime that start builds has exactly one
\* worker.
C14_SingleThreadOneWorker ==
    (args.single_thread /\ mainPc \in {"running", "exited"} /\ mainRt.flavor = "multi_thread")
        => mainRt.workers = 1

-----------------------------------------------------------------------------
(* Claims about start's initialisation *)

\* C18: the DNS client's reference to the dispatcher is weak, it is installed
\* when both the DNS client and the dispatcher exist, and it is in place
\* before the NAT manager, the inbound manager or any inbound runner exists.
C18_BackrefBeforeInbound ==
    /\ dns_dispatcher \in {"none", "weak"}
    /\ dns_dispatcher = "weak" => {"dns_client", "dispatcher"} \subseteq components
    /\ components \cap {"nat_manager", "inbound_manager", "runners"} # {}
          => dns_dispatcher = "weak"

\* C18 witness: the call runs, with its runners, after the back-reference.
C18_Witness ==
    siPc = "running" /\ "runners" \in components /\ dns_dispatcher = "weak"

\* The statements whose failure is a configuration error of the startup.
ConfigErrorSteps == {"config", "dns", "outbound", "inbound", "runners"}

\* C19: a failure of the config parse, DnsClient::new, OutboundManager::new,
\* InboundManager::new or get_network_runners makes start return an Err, and
\* a start that returned an Err has not touched the registry.
C19_ConfigErrorNeverRegisters ==
    [][/\ (siPc \in ConfigErrorSteps /\ StepFails(siPc, siIn)) => siPc' = "err"
       /\ siPc' = "err" => (registry' = registry /\ registry' = EmptyRegistry /\ ~IsRunning')
      ]_vars

\* C19 witness: InboundManager::new failed and start has returned the Err.
C19_Witness ==
    siPc = "err" /\ siIn.fail = "inbound" /\ "nat_manager" \in components /\ ~IsRunning

\* C20: the registry holds at most one entry, and its key is INSTANCE_ID.
C20_RegistryHoldsOnlyInstanceId ==
    /\ DOMAIN registry \subseteq {INSTANCE_ID}
    /\ Cardinality(DOMAIN registry) <= 1

\* C20 witness: two calls of start have both inserted and neither has removed,
\* and the registry holds one entry.
C20_Witness ==
    \E t \in Threads : \E u \in Threads \ {t} :
        /\ pc[t] = "running"
        /\ pc[u] = "running"
        /\ Cardinality(DOMAIN registry) = 1

-----------------------------------------------------------------------------
(* Claims about the router *)

\* The rules the session satisfies, by position.
MatchingRules == {i \in 1..Len(rules) : RuleMatches(rules[i], session)}

\* The first inserted outbound tag.
FirstInsertedTag == IF handlers = <<>> THEN None ELSE Some(handlers[1].tag)

\* C22: a route lookup returns the target of the first rule, in configuration
\* order, that the session satisfies, and the first inserted outbound tag when
\* no rule matches; successive lookups return the same tag.
C22_FirstMatchElseFirstInserted ==
    \A q \in 1..Len(routed) :
        /\ routed[q] =
              IF MatchingRules = {}
              THEN FirstInsertedTag
              ELSE Some(rules[CHOOSE i \in MatchingRules :
                                  \A j \in MatchingRules : i <= j].target)
        /\ routed[q] = routed[1]

-----------------------------------------------------------------------------
(* Claims about the NAT map *)

\* C21: for every NAT key, whatever the interleaving of send_packet calls and
\* idle reaping, the map holds at most one live entry with that key.
C21_OneEntryPerKey ==
    \A key \in NatKeys : Cardinality({e \in nat_entries : e.key = key}) <= 1

\* C21 witness: a send_packet call lost the race for its key, discarded the
\* endpoint it had dialled, and the key's entry is the winner's.
C21_Witness ==
    \E c \in NatCallers :
        /\ natCall[c].pc = "write"
        /\ natCall[c].discarded
        /\ HasEntry(nat_entries, natCall[c].key)
        /\ nextEndpoint >= 3

-----------------------------------------------------------------------------
(* Claims about InboundManager::new *)

\* The composite inbounds of the list and the actor tags they name.
IsComposite(ib) == ib.protocol \in CompositeProtocols

\* C8: when a chain or amux inbound names an actor tag that has no handler
\* after the last pass, InboundManager::new returns an error: it never returns
\* Ok with such an actor left out.
C8_MissingActorIsError ==
    ibPc = "built" =>
        \A i \in 1..Len(inbounds) :
            IsComposite(inbounds[i]) => RangeOf(inbounds[i].settings.actors) \subseteq DOMAIN inHandlers

\* C9: after the fourth pass every actor a composite handler of the map holds
\* is the handler the map currently stores under that actor's tag.
C9_ActorsAreCurrentHandlers ==
    (ibPc = "base" /\ ibPass = InboundPasses) =>
        \A t \in DOMAIN inHandlers :
            \A k \in 1..Len(arcs[inHandlers[t]].actors) :
                LET actor == arcs[inHandlers[t]].actors[k]
                IN  inHandlers[arcs[actor].tag] = actor

UniqueTag(i) == \A j \in 1..Len(inbounds) : inbounds[j].tag = inbounds[i].tag => j = i

\* The composite passes have begun and no settings were rejected.
InPasses == ibPc \in {"base", "built"} /\ ibPass >= 1

C10_NoRulesStartRuns ==
    \A t \in Threads : cfg[t].rules = "none" => pc[t] # "panicked"

====
